---- MODULE Spec2Model ----
(***************************************************************************)
(* train.py of inception_v3-vae-pytorch as a state machine.                *)
(*                                                                         *)
(* The script is sequential: module-level set-up (argument parsing, data   *)
(* loaders, model, optimizer selection), then main(), which creates the    *)
(* output directory and runs start_training() inside try/except.  One      *)
(* action models one statement (or one group of adjacent statements) of    *)
(* the script; pc is the position of the interpreter.                      *)
(*                                                                         *)
(* Tensors are abstracted to what the control flow reads of them: the      *)
(* number of samples of a batch and the number of elements of a            *)
(* reconstruction.  A loss value is identified by the batch it was         *)
(* computed from.                                                          *)
(***************************************************************************)
EXTENDS Integers, Sequences, FiniteSets, TLC

\* ------------------------------------------------------------ bounds
MaxEpochs == 2
MaxLogInterval == 2
MaxBatch == 2
MaxData == 3

\* ------------------------------------------------- program constants
SampleCap == 8      \* min(data_batch.size(0), 8)
Channels == 3       \* DatasetConfig(channels=3)
ImageSize == 96     \* DatasetConfig(image_size=96)

VARIABLES
    args,           \* the parsed command line: optimizer, epochs, log_interval, batch_size
    env,            \* what the script finds around it: data set sizes, loader and file system
    pc,             \* position of the interpreter
    optimizer,      \* the optimizer object: "none" until constructed
    nOptimizers,    \* number of optimizer objects constructed
    training,       \* model.training, set by model.train() / model.eval()
    params,         \* number of updates applied to the model parameters
    optState,       \* number of updates applied to the optimizer state
    grad,           \* batches whose gradient is accumulated in the .grad buffers
    loss,           \* the batch the current loss (and its graph) was computed from
    epoch,          \* loop variable of start_training
    batch_idx,      \* loop variable of train (-1 before the first batch)
    i,              \* loop variable of test (-1 before the first batch)
    train_loss,     \* train's accumulator: the losses summed so far
    epoch_loss,     \* train's list of per-sample losses
    test_loss,      \* test's accumulator: the losses summed so far
    epoch_train_loss,       \* start_training's local: what train returned
    epoch_test_loss,        \* start_training's local: what test returned
    historic_training_loss,
    historic_testing_loss,
    mkdirCalls,     \* calls of make_directory
    images,         \* save_image calls, in order
    saved,          \* save_training_data calls, in order
    stdout,         \* lines printed, in order
    events,         \* every model/optimizer call and pass boundary, in order
    exc,            \* the exception in flight or handled: "none" if there is none
    result          \* how main ended: "pending", "None", "trace" or "raised"

vars == <<args, env, pc, optimizer, nOptimizers, training, params, optState, grad,
          loss, epoch, batch_idx, i, train_loss, epoch_loss, test_loss,
          epoch_train_loss, epoch_test_loss, historic_training_loss,
          historic_testing_loss, mkdirCalls, images, saved, stdout, events, exc,
          result>>

\* Groups of variables, for UNCHANGED.
modelVars == <<optimizer, nOptimizers, training, params, optState, grad, loss>>
trainVars == <<batch_idx, train_loss, epoch_loss>>
testVars == <<i, test_loss>>
loopVars == <<epoch, epoch_train_loss, epoch_test_loss, historic_training_loss,
              historic_testing_loss>>
ioVars == <<mkdirCalls, images, saved, stdout>>
endVars == <<exc, result>>

\* ------------------------------------------------------------ inputs
OptimizerNames == {"adam", "adagrad", "adadelta", "sgd"}
EpochValues == (-1)..MaxEpochs
LogIntervals == (-1)..MaxLogInterval
BatchSizes == (1..MaxBatch) \cup {SampleCap + 1}
TrainSizes == 1..MaxData
TestSizes == (1..MaxData) \cup {SampleCap + 1}

\* ----------------------------------------------------------- helpers
Min(a, b) == IF a <= b THEN a ELSE b

\* Python's a % n for a >= 0 and n # 0: the result has the sign of n.
PyMod(a, n) == IF n > 0 THEN a % n ELSE -((-a) % (-n))

\* len(loader): the number of batches of a data set of `size` samples.
NumBatches(size, drop) ==
    IF drop THEN size \div args.batch_size
    ELSE (size + args.batch_size - 1) \div args.batch_size

\* len(data_batch) of batch number b (from 0) of a data set of `size` samples.
BatchLen(size, b) == Min(args.batch_size, size - b * args.batch_size)

\* Number of elements of the reconstruction of a batch of n samples.
ReconNumel(n) == n * Channels * ImageSize * ImageSize

\* An entry of the call log: the call, the function making it, and the state of
\* the model and the optimizer when it is made.
Event(fn, op, b) == [fn |-> fn, op |-> op, epoch |-> epoch, batch |-> b,
                     mode |-> training, grads |-> grad, params |-> params,
                     optState |-> optState]

\* A printed line, with the length of the call log when it is printed.
Line(kind, b) == [kind |-> kind, epoch |-> epoch, batch |-> b, at |-> Len(events)]

\* -------------------------------------------------------------- Init
Init ==
    /\ args \in [optimizer : OptimizerNames, epochs : EpochValues,
                 log_interval : LogIntervals, batch_size : BatchSizes]
    /\ env \in [trainSize : TrainSizes, testSize : TestSizes,
                dropLast : BOOLEAN, dirFails : BOOLEAN]
    /\ pc = "assert"
    /\ optimizer = "none"
    /\ nOptimizers = 0
    /\ training = TRUE
    /\ params = 0
    /\ optState = 0
    /\ grad = {}
    /\ loss = <<>>
    /\ epoch = 0
    /\ batch_idx = -1
    /\ i = -1
    /\ train_loss = <<>>
    /\ epoch_loss = <<>>
    /\ test_loss = <<>>
    /\ epoch_train_loss = <<>>
    /\ epoch_test_loss = <<>>
    /\ historic_training_loss = <<>>
    /\ historic_testing_loss = <<>>
    /\ mkdirCalls = 0
    /\ images = <<>>
    /\ saved = <<>>
    /\ stdout = <<>>
    /\ events = <<>>
    /\ exc = "none"
    /\ result = "pending"

\* reshaped.view(shape): legal when the element counts agree.
ViewOk(numel, n) == numel = n * Channels * ImageSize * ImageSize

Raise(name) ==
    /\ exc' = name
    /\ pc' = "except"
    /\ UNCHANGED result

\* ------------------------------------------------- module-level code
\* Mutant of AssertOptimizer: the assertion is left out.
AssertOptimizer_Omitted ==
    /\ pc = "assert"
    /\ pc' = "select"
    /\ UNCHANGED <<args, env, modelVars, trainVars, testVars, loopVars, ioVars,
                   events, endVars>>

\* assert args.optimizer in ['adam', 'adagrad', 'adadelta']
AssertOptimizer ==
    /\ pc = "assert"
    /\ IF args.optimizer \in {"adam", "adagrad", "adadelta"}
       THEN pc' = "select" /\ UNCHANGED exc
       ELSE pc' = "aborted" /\ exc' = "AssertionError"
    /\ UNCHANGED <<args, env, modelVars, trainVars, testVars, loopVars, ioVars,
                   events, result>>

\* if / elif / else over args.optimizer
SelectOptimizer ==
    /\ pc = "select"
    /\ optimizer' = IF args.optimizer = "adam" THEN "Adam"
                    ELSE IF args.optimizer = "adagrad" THEN "Adagrad"
                    ELSE "Adadelta"
    /\ nOptimizers' = nOptimizers + 1
    /\ pc' = "main"
    /\ UNCHANGED <<args, env, training, params, optState, grad, loss, trainVars,
                   testVars, loopVars, ioVars, events, endVars>>

\* -------------------------------------------------------------- main
\* make_directory(dir_name=config.output_dir_name), outside the try block
MakeDirectory ==
    /\ pc = "main"
    /\ mkdirCalls' = mkdirCalls + 1
    /\ IF env.dirFails
       THEN pc' = "aborted" /\ exc' = "OSError" /\ result' = "raised"
       ELSE pc' = "start" /\ UNCHANGED endVars
    /\ UNCHANGED <<args, env, modelVars, trainVars, testVars, loopVars, images,
                   saved, stdout, events>>

\* Mutant of Except: the handler prints the traceback and raises again.
Except_Reraise ==
    /\ pc = "except"
    /\ stdout' = Append(stdout, Line("trace", -1))
    /\ result' = "raised"
    /\ pc' = "aborted"
    /\ UNCHANGED <<args, env, modelVars, trainVars, testVars, loopVars, mkdirCalls,
                   images, saved, events, exc>>

\* except Exception as e: trace = traceback.format_exc(); print(trace); return trace
Except ==
    /\ pc = "except"
    /\ stdout' = Append(stdout, Line("trace", -1))
    /\ result' = "trace"
    /\ pc' = "done"
    /\ UNCHANGED <<args, env, modelVars, trainVars, testVars, loopVars, mkdirCalls,
                   images, saved, events, exc>>

\* ---------------------------------------------------- start_training
\* historic_training_loss = []; historic_testing_loss = []
StartTraining ==
    /\ pc = "start"
    /\ historic_training_loss' = <<>>
    /\ historic_testing_loss' = <<>>
    /\ pc' = "loop"
    /\ UNCHANGED <<args, env, modelVars, trainVars, testVars, epoch,
                   epoch_train_loss, epoch_test_loss, ioVars, events, endVars>>

\* for epoch in range(1, config.epochs + 1)
LoopNext ==
    /\ pc = "loop"
    /\ IF epoch + 1 <= args.epochs
       THEN epoch' = epoch + 1 /\ pc' = "call_train"
       ELSE pc' = "save" /\ UNCHANGED epoch
    /\ UNCHANGED <<args, env, modelVars, trainVars, testVars, epoch_train_loss,
                   epoch_test_loss, historic_training_loss, historic_testing_loss,
                   ioVars, events, endVars>>

\* Mutant of CallTrain: the evaluation pass is called in place of the training pass.
CallTrain_TestFirst ==
    /\ pc = "call_train"
    /\ events' = Append(events, Event("start_training", "test_begin", -1))
    /\ pc' = "e_mode"
    /\ UNCHANGED <<args, env, modelVars, trainVars, testVars, loopVars, ioVars,
                   endVars>>

\* epoch_train_loss = train(epoch): the call
CallTrain ==
    /\ pc = "call_train"
    /\ events' = Append(events, Event("start_training", "train_begin", -1))
    /\ pc' = "t_mode"
    /\ UNCHANGED <<args, env, modelVars, trainVars, testVars, loopVars, ioVars,
                   endVars>>

\* epoch_test_loss = test(epoch): the call
CallTest ==
    /\ pc = "call_test"
    /\ events' = Append(events, Event("start_training", "test_begin", -1))
    /\ pc' = "e_mode"
    /\ UNCHANGED <<args, env, modelVars, trainVars, testVars, loopVars, ioVars,
                   endVars>>

\* Mutant of Extend: the epoch's list is appended as one entry, not extended.
Extend_Append ==
    /\ pc = "extend"
    /\ historic_training_loss' = Append(historic_training_loss, epoch_train_loss)
    /\ historic_testing_loss' = Append(historic_testing_loss, epoch_test_loss)
    /\ pc' = "loop"
    /\ UNCHANGED <<args, env, modelVars, trainVars, testVars, epoch,
                   epoch_train_loss, epoch_test_loss, ioVars, events, endVars>>

\* historic_training_loss.extend(epoch_train_loss)
\* historic_testing_loss.append(epoch_test_loss)
Extend ==
    /\ pc = "extend"
    /\ historic_training_loss' = historic_training_loss \o epoch_train_loss
    /\ historic_testing_loss' = Append(historic_testing_loss, epoch_test_loss)
    /\ pc' = "loop"
    /\ UNCHANGED <<args, env, modelVars, trainVars, testVars, epoch,
                   epoch_train_loss, epoch_test_loss, ioVars, events, endVars>>

\* save_training_data(...), after which start_training and main return None
SaveTrainingData ==
    /\ pc = "save"
    /\ saved' = Append(saved, [train |-> historic_training_loss,
                               test |-> historic_testing_loss,
                               at |-> Len(events)])
    /\ result' = "None"
    /\ pc' = "done"
    /\ UNCHANGED <<args, env, modelVars, trainVars, testVars, loopVars, mkdirCalls,
                   images, stdout, events, exc>>

\* -------------------------------------------------------------- train
\* Mutant of TrainMode: model.train() is left out.
TrainMode_NoModeSwitch ==
    /\ pc = "t_mode"
    /\ train_loss' = <<>>
    /\ epoch_loss' = <<>>
    /\ batch_idx' = -1
    /\ pc' = "t_next"
    /\ UNCHANGED <<args, env, modelVars, testVars, loopVars, ioVars, events,
                   endVars>>

\* model.train(); train_loss, epoch_loss = 0, []
TrainMode ==
    /\ pc = "t_mode"
    /\ training' = TRUE
    /\ train_loss' = <<>>
    /\ epoch_loss' = <<>>
    /\ batch_idx' = -1
    /\ events' = Append(events, Event("train", "train()", -1))
    /\ pc' = "t_next"
    /\ UNCHANGED <<args, env, optimizer, nOptimizers, params, optState, grad, loss,
                   testVars, loopVars, ioVars, endVars>>

\* for batch_idx, (data_batch, _) in enumerate(train_loader)
TrainNext ==
    /\ pc = "t_next"
    /\ IF batch_idx + 1 < NumBatches(env.trainSize, env.dropLast)
       THEN batch_idx' = batch_idx + 1 /\ pc' = "t_forward"
       ELSE pc' = "t_avg" /\ UNCHANGED batch_idx
    /\ UNCHANGED <<args, env, modelVars, train_loss, epoch_loss, testVars, loopVars,
                   ioVars, events, endVars>>

\* recon_batch, mu, log_var = model(data_batch)
TrainForward ==
    /\ pc = "t_forward"
    /\ events' = Append(events, Event("train", "forward", batch_idx))
    /\ pc' = "t_loss"
    /\ UNCHANGED <<args, env, modelVars, trainVars, testVars, loopVars, ioVars,
                   endVars>>

\* loss = variational_ELBO(recon_batch, data_batch, mu, log_var)
TrainLoss ==
    /\ pc = "t_loss"
    /\ loss' = <<epoch, batch_idx>>
    /\ events' = Append(events, Event("train", "loss", batch_idx))
    /\ pc' = "t_zero"
    /\ UNCHANGED <<args, env, optimizer, nOptimizers, training, params, optState,
                   grad, trainVars, testVars, loopVars, ioVars, endVars>>

\* Mutant of ZeroGrad: the call is left out, so gradients accumulate.
ZeroGrad_Omitted ==
    /\ pc = "t_zero"
    /\ pc' = "t_backward"
    /\ UNCHANGED <<args, env, modelVars, trainVars, testVars, loopVars, ioVars,
                   events, endVars>>

\* optimizer.zero_grad()
ZeroGrad ==
    /\ pc = "t_zero"
    /\ grad' = {}
    /\ events' = Append(events, Event("train", "zero_grad", batch_idx))
    /\ pc' = "t_backward"
    /\ UNCHANGED <<args, env, optimizer, nOptimizers, training, params, optState,
                   loss, trainVars, testVars, loopVars, ioVars, endVars>>

\* loss.backward(): gradients are added to the .grad buffers
Backward ==
    /\ pc = "t_backward"
    /\ grad' = grad \cup {loss}
    /\ events' = Append(events, Event("train", "backward", batch_idx))
    /\ pc' = "t_step"
    /\ UNCHANGED <<args, env, optimizer, nOptimizers, training, params, optState,
                   loss, trainVars, testVars, loopVars, ioVars, endVars>>

\* optimizer.step(): the event keeps the gradients the update was made from
Step ==
    /\ pc = "t_step"
    /\ params' = params + 1
    /\ optState' = optState + 1
    /\ events' = Append(events, Event("train", "step", batch_idx))
    /\ pc' = "t_record"
    /\ UNCHANGED <<args, env, optimizer, nOptimizers, training, grad, loss,
                   trainVars, testVars, loopVars, ioVars, endVars>>

\* train_loss += loss.item(); epoch_loss.append(loss.item() / len(data_batch))
Record ==
    /\ pc = "t_record"
    /\ train_loss' = Append(train_loss, loss)
    /\ epoch_loss' = Append(epoch_loss, loss)
    /\ events' = Append(events, Event("train", "record", batch_idx))
    /\ pc' = "t_log"
    /\ UNCHANGED <<args, env, modelVars, batch_idx, testVars, loopVars, ioVars,
                   endVars>>

\* Mutant of ShouldLog: the batches are counted from 1.
ShouldLog_OffByOne(b) == PyMod(b + 1, args.log_interval) = 0

\* batch_idx % config.log_interval == 0
ShouldLog(b) == PyMod(b, args.log_interval) = 0

\* if batch_idx % config.log_interval == 0: print('Train Epoch: ...')
\* The modulo raises ZeroDivisionError when log_interval is 0.
Log ==
    /\ pc = "t_log"
    /\ IF args.log_interval = 0
       THEN Raise("ZeroDivisionError") /\ UNCHANGED stdout
       ELSE /\ stdout' = IF ShouldLog(batch_idx)
                         THEN Append(stdout, Line("status", batch_idx))
                         ELSE stdout
            /\ pc' = "t_next"
            /\ UNCHANGED endVars
    /\ UNCHANGED <<args, env, modelVars, trainVars, testVars, loopVars, mkdirCalls,
                   images, saved, events>>

\* print('====> Epoch: {} Average loss: ...'); return epoch_loss
TrainReturn ==
    /\ pc = "t_avg"
    /\ stdout' = Append(stdout, Line("average", -1))
    /\ epoch_train_loss' = epoch_loss
    /\ events' = Append(events, Event("train", "train_return", -1))
    /\ pc' = "call_test"
    /\ UNCHANGED <<args, env, modelVars, trainVars, testVars, epoch,
                   epoch_test_loss, historic_training_loss, historic_testing_loss,
                   mkdirCalls, images, saved, endVars>>

\* --------------------------------------------------------------- test
\* model.eval(); test_loss = 0
TestMode ==
    /\ pc = "e_mode"
    /\ training' = FALSE
    /\ test_loss' = <<>>
    /\ i' = -1
    /\ events' = Append(events, Event("test", "eval()", -1))
    /\ pc' = "e_next"
    /\ UNCHANGED <<args, env, optimizer, nOptimizers, params, optState, grad, loss,
                   trainVars, loopVars, ioVars, endVars>>

\* for i, (data_batch, _) in enumerate(test_loader), under torch.no_grad()
TestNext ==
    /\ pc = "e_next"
    /\ IF i + 1 < NumBatches(env.testSize, env.dropLast)
       THEN i' = i + 1 /\ pc' = "e_forward"
       ELSE pc' = "e_avg" /\ UNCHANGED i
    /\ UNCHANGED <<args, env, modelVars, trainVars, test_loss, loopVars, ioVars,
                   events, endVars>>

\* recon_batch, mu, log_var = model(data_batch)
TestForward ==
    /\ pc = "e_forward"
    /\ events' = Append(events, Event("test", "forward", i))
    /\ pc' = "e_loss"
    /\ UNCHANGED <<args, env, modelVars, trainVars, testVars, loopVars, ioVars,
                   endVars>>

\* test_loss += variational_ELBO(recon_batch, data_batch, mu, log_var).item()
TestLoss ==
    /\ pc = "e_loss"
    /\ test_loss' = Append(test_loss, <<epoch, i>>)
    /\ events' = Append(events, Event("test", "loss", i))
    /\ pc' = "e_image"
    /\ UNCHANGED <<args, env, modelVars, trainVars, i, loopVars, ioVars, endVars>>

\* if i == 0: n = min(data_batch.size(0), 8)
\*            comparison = cat([data_batch[:n], recon_batch.view(batch_size, ...)[:n]])
\*            save_image(comparison, '<output_dir>/reconstruction_<epoch>.png', nrow=n)
\* The view raises RuntimeError when recon_batch does not hold batch_size images.
TestImage ==
    /\ pc = "e_image"
    /\ IF i # 0
       THEN pc' = "e_next" /\ UNCHANGED <<images, endVars>>
       ELSE IF ViewOk(ReconNumel(BatchLen(env.testSize, i)), args.batch_size)
       THEN /\ images' = Append(images,
                    [name |-> epoch, batch |-> i,
                     originals |-> Min(BatchLen(env.testSize, i), SampleCap),
                     reconstructions |-> Min(args.batch_size,
                                             Min(BatchLen(env.testSize, i), SampleCap))])
            /\ pc' = "e_next"
            /\ UNCHANGED endVars
       ELSE Raise("RuntimeError") /\ UNCHANGED images
    /\ UNCHANGED <<args, env, modelVars, trainVars, testVars, loopVars, mkdirCalls,
                   saved, stdout, events>>

\* test_loss /= len(test_loader.dataset); print('====> Test set loss: ...'); return
TestReturn ==
    /\ pc = "e_avg"
    /\ stdout' = Append(stdout, Line("test", -1))
    /\ epoch_test_loss' = [epoch |-> epoch, summed |-> test_loss]
    /\ events' = Append(events, Event("test", "test_return", -1))
    /\ pc' = "extend"
    /\ UNCHANGED <<args, env, modelVars, trainVars, testVars, epoch,
                   epoch_train_loss, historic_training_loss, historic_testing_loss,
                   mkdirCalls, images, saved, endVars>>

\* ----------------------------------------------------- specification
Next ==
    \/ AssertOptimizer
    \/ SelectOptimizer
    \/ MakeDirectory
    \/ StartTraining
    \/ LoopNext
    \/ CallTrain
    \/ TrainMode
    \/ TrainNext
    \/ TrainForward
    \/ TrainLoss
    \/ ZeroGrad
    \/ Backward
    \/ Step
    \/ Record
    \/ Log
    \/ TrainReturn
    \/ CallTest
    \/ TestMode
    \/ TestNext
    \/ TestForward
    \/ TestLoss
    \/ TestImage
    \/ TestReturn
    \/ Extend
    \/ SaveTrainingData
    \/ Except

Spec == Init /\ [][Next]_vars

\* ------------------------------------------------------------ claims
\* Batches per training pass.
TrainBatches == NumBatches(env.trainSize, env.dropLast)

\* Indices of the call log holding call `op` of epoch e and batch b.
Calls(fn, op, e, b) ==
    {k \in 1..Len(events) : /\ events[k].fn = fn /\ events[k].op = op
                            /\ events[k].epoch = e /\ events[k].batch = b}

PassOps == <<"train_begin", "train_return", "test_begin", "test_return">>
IsPassEvent(ev) == ev.op \in {PassOps[k] : k \in 1..4}
Passes == SelectSeq(events, IsPassEvent)

\* C1: the passes of start_training are train(1), test(1), train(2), test(2), ...:
\* the k-th pass boundary is the begin or the return the alternation prescribes,
\* for the epoch it prescribes, so test(e) begins only after train(e) returned and
\* train(e+1) only after test(e) returned; and a training pass returns only after
\* every training batch of its epoch went through the optimizer and was recorded.
C1_PassesAlternate ==
    /\ LET ps == Passes
       IN \A k \in 1..Len(ps) :
             /\ ps[k].op = PassOps[((k - 1) % 4) + 1]
             /\ ps[k].epoch = ((k - 1) \div 4) + 1
             /\ ps[k].epoch <= args.epochs
    /\ \A k \in 1..Len(events) :
          events[k].op = "train_return" =>
              \A b \in 0..(TrainBatches - 1) :
                  /\ \E j \in Calls("train", "step", events[k].epoch, b) : j < k
                  /\ \E j \in Calls("train", "record", events[k].epoch, b) : j < k

\* A second training pass of two batches has returned, after the first evaluation pass.
C1_Witness ==
    /\ TrainBatches >= 2
    /\ \E k \in 1..Len(events) : events[k].op = "train_return" /\ events[k].epoch = 2
    /\ \E k \in 1..Len(events) : events[k].op = "test_return" /\ events[k].epoch = 1

TrainOps == <<"forward", "loss", "zero_grad", "backward", "step", "record">>
IsTrainOp(ev) == ev.fn = "train" /\ ev.op \in {TrainOps[k] : k \in 1..6}
TrainCalls == SelectSeq(events, IsTrainOp)

\* C2: the calls train makes are, batch after batch, forward, loss, zero_grad,
\* backward, step, record, each once and in this order; the gradients an optimizer
\* step uses are those of the batch being processed alone; and a status line is
\* printed for a batch only after its step and its recording.
C2_BatchStepsInOrder ==
    /\ LET tc == TrainCalls
       IN \A k \in 1..Len(tc) :
             /\ tc[k].op = TrainOps[((k - 1) % 6) + 1]
             /\ tc[k].batch = ((k - 1) \div 6) % TrainBatches
             /\ tc[k].epoch = (((k - 1) \div 6) \div TrainBatches) + 1
             /\ tc[k].op = "step" => tc[k].grads = {<<tc[k].epoch, tc[k].batch>>}
    /\ \A n \in 1..Len(stdout) :
          stdout[n].kind = "status" =>
              /\ \E j \in Calls("train", "step", stdout[n].epoch, stdout[n].batch) :
                    j <= stdout[n].at
              /\ \E j \in Calls("train", "record", stdout[n].epoch, stdout[n].batch) :
                    j <= stdout[n].at

\* The second batch of the second epoch has been stepped and recorded.
C2_Witness ==
    /\ Calls("train", "step", 2, 1) # {}
    /\ Calls("train", "record", 2, 1) # {}
    /\ \E n \in 1..Len(stdout) : stdout[n].kind = "status" /\ stdout[n].epoch = 2

\* Number of epochs the loop of start_training runs.
EpochCount == IF args.epochs > 0 THEN args.epochs ELSE 0

\* C3: when main has returned None (start_training completed), save_training_data
\* was called exactly once, after everything else; the training history it was
\* given holds the loss of every batch of every epoch, by epoch then by batch, and
\* the testing history one entry per epoch, in epoch order.  It is never called
\* more than once.
C3_HistorySavedOnce ==
    /\ Len(saved) <= 1
    /\ (pc = "done" /\ result = "None") =>
          /\ Len(saved) = 1
          /\ saved[1].at = Len(events)
          /\ EpochCount > 0 =>
                /\ events[Len(events)].op = "test_return"
                /\ events[Len(events)].epoch = EpochCount
          /\ saved[1].train = [k \in 1..(EpochCount * TrainBatches) |->
                                  <<((k - 1) \div TrainBatches) + 1,
                                    (k - 1) % TrainBatches>>]
          /\ Len(saved[1].test) = EpochCount
          /\ \A e \in 1..EpochCount : saved[1].test[e].epoch = e

\* A run of two epochs of three batches each has completed and saved its history.
C3_Witness ==
    /\ pc = "done"
    /\ result = "None"
    /\ EpochCount = 2
    /\ TrainBatches = 3
    /\ Len(saved) = 1
    /\ Len(saved[1].train) = 6

\* Epochs whose evaluation pass was called and has ended, by return or by exception.
TestedEpochs ==
    {e \in 1..EpochCount :
        /\ \E k \in 1..Len(events) : events[k].op = "test_begin" /\ events[k].epoch = e
        /\ \/ \E k \in 1..Len(events) :
                 events[k].op = "test_return" /\ events[k].epoch = e
           \/ pc \in {"except", "done", "aborted"}}

ImagesOf(e) == {n \in 1..Len(images) : images[n].name = e}

\* C4 (as claimed): with a data loader that keeps its last, partial batch, every
\* evaluation pass that was called and has ended wrote exactly one image,
\* reconstruction_<e>.png, made from the first test batch: n = min(size of the
\* first batch, 8) originals followed by their n reconstructions.
C4_OneImagePerPass ==
    ~env.dropLast =>
        \A e \in TestedEpochs :
            /\ Cardinality(ImagesOf(e)) = 1
            /\ \A n \in ImagesOf(e) :
                  /\ images[n].batch = 0
                  /\ images[n].originals = Min(BatchLen(env.testSize, 0), SampleCap)
                  /\ images[n].reconstructions = images[n].originals

\* C5 (as claimed): for a log interval of 1 or more, once the script has ended after
\* main was entered and the output directory made, exactly `epochs` training
\* passes and `epochs` evaluation passes have run, for the epochs 1..epochs in
\* ascending order, and for epochs <= 0 none has run and save_training_data was
\* called with two empty histories.
C5_RunsAllEpochs ==
    (pc = "done" /\ args.log_interval >= 1) =>
        /\ LET ps == Passes
           IN /\ Len(ps) = 4 * EpochCount
              /\ \A k \in 1..Len(ps) :
                    /\ ps[k].op = PassOps[((k - 1) % 4) + 1]
                    /\ ps[k].epoch = ((k - 1) \div 4) + 1
        /\ args.epochs <= 0 =>
              /\ events = <<>>
              /\ Len(saved) = 1
              /\ saved[1].train = <<>>
              /\ saved[1].test = <<>>

StatusLines(e, b) ==
    {n \in 1..Len(stdout) : /\ stdout[n].kind = "status"
                            /\ stdout[n].epoch = e /\ stdout[n].batch = b}
AverageLines(e) ==
    {n \in 1..Len(stdout) : stdout[n].kind = "average" /\ stdout[n].epoch = e}

\* Batches of epoch e that have gone through the logging statement of train.
Logged(e) ==
    {b \in 0..(TrainBatches - 1) :
        /\ Calls("train", "record", e, b) # {}
        /\ ~(pc = "t_log" /\ epoch = e /\ batch_idx = b)}

\* C6: for log_interval >= 1, a batch that has gone through the logging statement
\* has exactly one status line if its index is a multiple of log_interval and none
\* otherwise, so batch 0 is always logged; status lines are printed for recorded
\* batches only; two status lines of an epoch that follow one another are
\* log_interval batches apart; and every training pass that returned printed
\* exactly one epoch-average line, after the last batch was recorded and after the
\* status lines of its epoch, no other pass printing any.
C6_LogEveryInterval ==
    args.log_interval >= 1 =>
        /\ \A e \in 1..EpochCount :
              /\ \A b \in Logged(e) :
                    Cardinality(StatusLines(e, b)) =
                        IF b % args.log_interval = 0 THEN 1 ELSE 0
              /\ Cardinality(AverageLines(e)) =
                    Cardinality({k \in 1..Len(events) :
                        events[k].op = "train_return" /\ events[k].epoch = e})
              /\ \A n \in AverageLines(e) :
                    /\ \A b \in 0..(TrainBatches - 1) :
                          /\ \E j \in Calls("train", "record", e, b) : j <= stdout[n].at
                          /\ \A m \in StatusLines(e, b) : m < n
        /\ \A n \in 1..Len(stdout) :
              stdout[n].kind = "status" =>
                  /\ stdout[n].epoch \in 1..EpochCount
                  /\ stdout[n].batch \in Logged(stdout[n].epoch)
        /\ \A n \in 1..(Len(stdout) - 1) :
              (/\ stdout[n].kind = "status" /\ stdout[n + 1].kind = "status"
               /\ stdout[n].epoch = stdout[n + 1].epoch) =>
                  stdout[n + 1].batch = stdout[n].batch + args.log_interval

\* With log_interval 2 and three batches, batches 0 and 2 of an epoch were logged,
\* batch 1 was not, and the epoch-average line followed.
C6_Witness ==
    /\ args.log_interval = 2
    /\ TrainBatches = 3
    /\ StatusLines(1, 0) # {}
    /\ StatusLines(1, 1) = {}
    /\ StatusLines(1, 2) # {}
    /\ AverageLines(1) # {}

\* C7: a call made by test is never zero_grad, backward or step, and finds the
\* parameters, the optimizer state and the gradient buffers as the call before it
\* found them, as does the statement test has reached; every forward pass made by
\* test finds the model in eval mode and every forward pass made by train finds it
\* in train mode.
C7_TestLeavesModelAlone ==
    /\ \A k \in 1..Len(events) :
          /\ events[k].fn = "test" =>
                /\ events[k].op \notin {"zero_grad", "backward", "step"}
                /\ events[k].params = events[k - 1].params
                /\ events[k].optState = events[k - 1].optState
                /\ events[k].grads = events[k - 1].grads
          /\ (events[k].op = "forward" /\ events[k].fn = "test") => ~events[k].mode
          /\ (events[k].op = "forward" /\ events[k].fn = "train") => events[k].mode
    /\ pc \in {"e_mode", "e_next", "e_forward", "e_loss", "e_image", "e_avg", "extend"} =>
          /\ params = events[Len(events)].params
          /\ optState = events[Len(events)].optState
          /\ grad = events[Len(events)].grads

\* An evaluation pass has returned after an optimizer step, and the training pass
\* that followed it has made a forward pass.
C7_Witness ==
    /\ \E k \in 1..Len(events) :
          /\ events[k].op = "test_return" /\ events[k].epoch = 1
          /\ events[k].params >= 1
    /\ \E k \in 1..Len(events) :
          /\ events[k].op = "forward" /\ events[k].fn = "train"
          /\ events[k].epoch = 2

ValidOptimizers == {"adam", "adagrad", "adadelta"}
OptimizerFor(name) ==
    CASE name = "adam" -> "Adam"
      [] name = "adagrad" -> "Adagrad"
      [] name = "adadelta" -> "Adadelta"
      [] OTHER -> "none"

\* C8: at most one optimizer is ever constructed, and a constructed optimizer is the
\* one --optimizer names; whatever main and the passes do, they do with that
\* optimizer; for any other name the script stops at the assertion with no
\* optimizer, no output directory, no call of the model or the optimizer, no image
\* and no saved history.
C8_OptimizerSelected ==
    /\ nOptimizers <= 1
    /\ nOptimizers = 1 <=> optimizer # "none"
    /\ optimizer # "none" => optimizer = OptimizerFor(args.optimizer)
    /\ (mkdirCalls > 0 \/ events # <<>>) =>
          /\ args.optimizer \in ValidOptimizers
          /\ optimizer = OptimizerFor(args.optimizer)
    /\ args.optimizer \notin ValidOptimizers =>
          /\ pc \in {"assert", "aborted"}
          /\ pc = "aborted" => exc = "AssertionError"
          /\ optimizer = "none"
          /\ mkdirCalls = 0
          /\ events = <<>>
          /\ images = <<>>
          /\ saved = <<>>
          /\ stdout = <<>>

\* The assertion has failed for the name sgd.
C8_Witness ==
    /\ args.optimizer = "sgd"
    /\ pc = "aborted"
    /\ exc = "AssertionError"

StartTrainingPcs ==
    {"start", "loop", "call_train", "t_mode", "t_next", "t_forward", "t_loss",
     "t_zero", "t_backward", "t_step", "t_record", "t_log", "t_avg", "call_test",
     "e_mode", "e_next", "e_forward", "e_loss", "e_image", "e_avg", "extend", "save"}

\* C9: make_directory is called at most once, and exactly once before anything of
\* start_training runs; an exception raised inside start_training reaches the
\* handler of main and nothing else, and main then ends by returning the
\* traceback, printed last; main returns None exactly when start_training
\* completed, having saved the history; and when make_directory raises, the
\* exception leaves main uncaught, before start_training has run.
C9_MainCatchesExceptions ==
    /\ mkdirCalls <= 1
    /\ (pc \in StartTrainingPcs \cup {"except", "done"}) =>
          mkdirCalls = 1 /\ ~env.dirFails
    /\ exc \in {"RuntimeError", "ZeroDivisionError"} =>
          /\ pc \in {"except", "done"}
          /\ result = IF pc = "done" THEN "trace" ELSE "pending"
          /\ pc = "done" => stdout[Len(stdout)].kind = "trace"
    /\ pc = "done" =>
          /\ result \in {"None", "trace"}
          /\ result = "None" <=> exc = "none"
          /\ result = "None" => Len(saved) = 1
    /\ result = "raised" <=> (env.dirFails /\ mkdirCalls = 1)
    /\ result = "raised" =>
          /\ pc = "aborted"
          /\ exc = "OSError"
          /\ events = <<>>
          /\ stdout = <<>>

\* main has returned the traceback of the ZeroDivisionError raised in the training pass.
C9_Witness ==
    /\ pc = "done"
    /\ exc = "ZeroDivisionError"
    /\ result = "trace"
    /\ mkdirCalls = 1

====
